---- MODULE Spec2Model ----
(***************************************************************************)
(* GAGHL_AVR_I2C: a polling master-mode driver for the AVR TWI peripheral. *)
(*                                                                         *)
(* The model has the five TWI registers, the part of the peripheral the    *)
(* driver interacts with (an operation in progress, the completion flag,   *)
(* the state of the bus), and one program counter per execution context.  *)
(* Program counter labels are the line numbers of GAGHL_AVR_I2C.c: "L28"   *)
(* is the statement at line 28.  A busy-wait loop is a step that is only   *)
(* enabled once the completion flag is set.                                *)
(***************************************************************************)
EXTENDS Integers, Sequences, FiniteSets, TLC

VARIABLES TWBR, TWSR, TWCR, TWDR, TWAR, hwPending, busPhase, busDir, openStarts, ctx

vars == <<TWBR, TWSR, TWCR, TWDR, TWAR, hwPending, busPhase, busDir, openStarts, ctx>>

regs == <<TWBR, TWSR, TWCR, TWDR, TWAR>>

hw == <<hwPending, busPhase, busDir, openStarts>>

(***************************************************************************)
(* Bounds of the model.                                                    *)
(***************************************************************************)
\* longest string (bytes before the terminator) handed to i2c_pagewrite
MaxStrLen == 2

\* largest length handed to i2c_pageread in the main specification
MaxLength == 3

(***************************************************************************)
(* Integer arithmetic at the widths of the code.                           *)
(***************************************************************************)
RECURSIVE BitAnd(_, _)
BitAnd(a, b) ==
    IF a = 0 \/ b = 0 THEN 0
    ELSE (a % 2) * (b % 2) + 2 * BitAnd(a \div 2, b \div 2)

RECURSIVE BitOr(_, _)
BitOr(a, b) ==
    IF a = 0 THEN b
    ELSE IF b = 0 THEN a
    ELSE (IF a % 2 = 1 \/ b % 2 = 1 THEN 1 ELSE 0) + 2 * BitOr(a \div 2, b \div 2)

\* conversion to uint8_t
U8(x) == x % 256

\* conversion to a 16-bit unsigned int (int is 16 bits on AVR)
U16(x) == x % 65536

F_CPU == 8000000

\* a value outside the range of a uint8_t: "no value"
NoValue == 255 + 1

(***************************************************************************)
(* The TWI peripheral, as far as the driver drives it.  TWCR is the set of *)
(* its bits that are one.  TWINT is both the completion flag and, written  *)
(* as one, the trigger that clears the flag and starts the next operation. *)
(*   hwPending  the operation the peripheral is carrying out               *)
(*   busPhase   Idle, Started, AddressPhase, DataPhase, Stopped            *)
(*   busDir     the direction bit of the address byte last sent            *)
(*   openStarts start conditions issued since the last stop condition,     *)
(*              counted up to two                                          *)
(***************************************************************************)
BusClosed == busPhase \in {"Idle", "Stopped"}

\* the driver stores the bits v to TWCR
TwcrWrite(v) ==
    /\ TWCR' = IF "TWINT" \in v THEN v \ {"TWINT"} ELSE v \cup (TWCR \cap {"TWINT"})
    /\ IF "TWINT" \notin v \/ "TWEN" \notin v
         THEN UNCHANGED hw
       ELSE IF "TWSTA" \in v
         THEN /\ hwPending' = IF BusClosed THEN "start" ELSE "repstart"
              /\ busPhase' = "Started"
              /\ openStarts' = IF BusClosed THEN 1 ELSE 2
              /\ UNCHANGED busDir
       ELSE IF "TWSTO" \in v
         THEN /\ hwPending' = "none"
              /\ busPhase' = "Stopped"
              /\ openStarts' = 0
              /\ UNCHANGED busDir
       ELSE IF busPhase = "Started"
         THEN /\ hwPending' = IF TWDR % 2 = 1 THEN "slar" ELSE "slaw"
              /\ busDir' = IF TWDR % 2 = 1 THEN "R" ELSE "W"
              /\ busPhase' = "AddressPhase"
              /\ UNCHANGED openStarts
       ELSE IF busPhase \in {"AddressPhase", "DataPhase"}
         THEN /\ hwPending' = IF busDir = "W" THEN "txdata"
                              ELSE IF "TWEA" \in v THEN "rxack" ELSE "rxnack"
              /\ busPhase' = "DataPhase"
              /\ UNCHANGED <<busDir, openStarts>>
       ELSE UNCHANGED hw

HwKinds == {"start", "repstart", "slaw", "slar", "txdata", "rxack", "rxnack"}

\* the status codes the peripheral reports for each operation in master mode
MasterCodes ==
    [k \in HwKinds |->
        CASE k = "start"    -> {\h08}
          [] k = "repstart" -> {\h10}
          [] k = "slaw"     -> {\h18, \h20, \h38}
          [] k = "slar"     -> {\h40, \h48, \h38}
          [] k = "txdata"   -> {\h28, \h30, \h38}
          [] k = "rxack"    -> {\h50}
          [] k = "rxnack"   -> {\h58}]

\* every value of the five status bits, whatever the operation
AnyCodes == [k \in HwKinds |-> {8 * j : j \in 0..31}]

\* The peripheral finishes its operation: it sets TWINT, reports a status in
\* the upper five bits of TWSR (the lower bits keep the prescaler setting)
\* and, after a receive, holds the received byte in TWDR.
HwComplete(codes, RxBytes) ==
    /\ hwPending # "none"
    /\ TWCR' = TWCR \cup {"TWINT"}
    /\ \E code \in codes[hwPending] : TWSR' = code + (TWSR % 8)
    /\ IF hwPending \in {"rxack", "rxnack"}
         THEN \E b \in RxBytes : TWDR' = b
         ELSE UNCHANGED TWDR
    /\ hwPending' = "none"
    /\ UNCHANGED <<TWBR, TWAR, busPhase, busDir, openStarts, ctx>>

\* The stop condition has gone out on the bus: the peripheral clears TWSTO.
HwStopDone ==
    /\ busPhase = "Stopped"
    /\ TWCR' = TWCR \ {"TWSTO"}
    /\ busPhase' = "Idle"
    /\ UNCHANGED <<TWBR, TWSR, TWDR, TWAR, hwPending, busDir, openStarts, ctx>>

(***************************************************************************)
(* Execution contexts.  ctx[c] holds the program counter of context c, the *)
(* parameters and locals of the function it is in, and what it has done    *)
(* in the current call:                                                    *)
(*   log        the primitive operations completed, in order               *)
(*   loads      the bytes stored to TWDR, in order                         *)
(*   bufWrites  the <<index, value>> stores to the caller's buffer         *)
(***************************************************************************)
Contexts == {"main"}

Ev(op, byte, ret) == [op |-> op, byte |-> byte, ret |-> ret]

Fresh ==
    [pc |-> "idle", retpc |-> "idle", op |-> "none",
     Slave_Address |-> 0, Data |-> 0, str |-> <<>>, sp |-> 1,
     buffer |-> <<>>, length |-> 0, i |-> 0, data |-> 0, freq |-> 0,
     arg |-> 0, rv |-> 0, result |-> NoValue,
     log |-> <<>>, loads |-> <<>>, bufWrites |-> <<>>]

At(c, l) == ctx[c].pc = l

Set(c, r) == ctx' = [ctx EXCEPT ![c] = r]

Goto(c, l) == Set(c, [ctx[c] EXCEPT !.pc = l])

\* call of a primitive: enter it at label entry, return to label ret
Call(c, entry, ret) == Set(c, [ctx[c] EXCEPT !.pc = entry, !.retpc = ret])

\* call of i2c_write(d)
CallWrite(c, d, ret) ==
    Set(c, [ctx[c] EXCEPT !.pc = "L42", !.retpc = ret, !.arg = U8(d)])

\* return from a primitive to its caller, with value v, logging event e
Return(c, v, e) ==
    Set(c, [ctx[c] EXCEPT !.pc = ctx[c].retpc, !.rv = v, !.log = Append(@, e)])

\* return from a function called from the application
Leave(c, v) == Set(c, [ctx[c] EXCEPT !.pc = "idle", !.result = v])

(***************************************************************************)
(* i2c_init                                                                *)
(***************************************************************************)

\* faulty variant of InitDivisor: the product is not cut to 16 bits
InitDivisor_NoWrap(freq) == freq * 1000

\* freq * 1000 : uint16_t times int, a 16-bit unsigned product
InitDivisor(freq) == U16(freq * 1000)

\* ((F_CPU / (freq * 1000)) - 16) / 2 in unsigned long (32-bit) arithmetic:
\* for a quotient q below 16 the difference wraps to 2^32 - (16 - q)
BitRate32(freq) ==
    LET q == F_CPU \div InitDivisor(freq)
    IN  IF q >= 16 THEN (q - 16) \div 2
        ELSE 2147483647 - (((16 - q + 1) \div 2) - 1)

\* a store of v to TWSR: only the prescaler bits TWPS1:0 are writable
TwsrWrite(v) == (TWSR - (TWSR % 8)) + (v % 4)

i2c_init(c, Freqs) ==
    /\ At(c, "idle")
    /\ \E f \in Freqs :
         /\ InitDivisor(f) # 0
         /\ Set(c, [Fresh EXCEPT !.op = "i2c_init", !.freq = f])
         /\ TWSR' = TwsrWrite(0)
         /\ TWBR' = U8(BitRate32(f))
    /\ TwcrWrite({"TWEN"})
    /\ UNCHANGED <<TWDR, TWAR>>

(***************************************************************************)
(* Primitive operations                                                    *)
(***************************************************************************)
i2c_start_L28(c) ==
    /\ At(c, "L28")
    /\ TwcrWrite({"TWINT", "TWSTA", "TWEN"})
    /\ Goto(c, "L29")
    /\ UNCHANGED <<TWBR, TWSR, TWDR, TWAR>>

i2c_start_L29(c) ==
    /\ At(c, "L29")
    /\ "TWINT" \in TWCR
    /\ Return(c, ctx[c].rv, Ev("start", NoValue, NoValue))
    /\ UNCHANGED <<regs, hw>>



\* faulty variant of i2c_stop_L38: after the store the function waits for
\* TWINT, which the peripheral does not set for a stop
i2c_stop_L38_ThenWaits(c) ==
    /\ At(c, "L38")
    /\ TwcrWrite({"TWINT", "TWSTO", "TWEN"})
    /\ Goto(c, "L38w")
    /\ UNCHANGED <<TWBR, TWSR, TWDR, TWAR>>

\* faulty variant of i2c_stop_L38: TWEN is left out of the value stored
i2c_stop_L38_NoEnable(c) ==
    /\ At(c, "L38")
    /\ TwcrWrite({"TWINT", "TWSTO"})
    /\ Return(c, ctx[c].rv, Ev("stop", NoValue, NoValue))
    /\ UNCHANGED <<TWBR, TWSR, TWDR, TWAR>>

i2c_stop_L38(c) ==
    /\ At(c, "L38")
    /\ TwcrWrite({"TWINT", "TWSTO", "TWEN"})
    /\ Return(c, ctx[c].rv, Ev("stop", NoValue, NoValue))
    /\ UNCHANGED <<TWBR, TWSR, TWDR, TWAR>>

i2c_write_L42(c) ==
    /\ At(c, "L42")
    /\ TWDR' = ctx[c].arg
    /\ Set(c, [ctx[c] EXCEPT !.pc = "L43", !.loads = Append(@, ctx[c].arg)])
    /\ UNCHANGED <<TWBR, TWSR, TWCR, TWAR, hw>>

i2c_write_L43(c) ==
    /\ At(c, "L43")
    /\ TwcrWrite({"TWINT", "TWEN"})
    /\ Goto(c, "L44")
    /\ UNCHANGED <<TWBR, TWSR, TWDR, TWAR>>


\* faulty variant of i2c_write_L44: the status is read without waiting for TWINT
i2c_write_L44_NoWait(c) ==
    /\ At(c, "L44")
    /\ Goto(c, "L46")
    /\ UNCHANGED <<regs, hw>>

i2c_write_L44(c) ==
    /\ At(c, "L44")
    /\ "TWINT" \in TWCR
    /\ Goto(c, "L46")
    /\ UNCHANGED <<regs, hw>>


\* faulty variant of WriteResult: the status is compared without the 0xF8 mask
WriteResult_Unmasked(twsr) ==
    IF twsr # \h18 /\ twsr # \h28 /\ twsr # \h40 /\ twsr # \h50 THEN 0 ELSE 1

\* lines 46-52: the result of i2c_write for the value twsr read from TWSR
WriteResult(twsr) ==
    LET status == BitAnd(twsr, \hF8)
    IN  IF status # \h18 /\ status # \h28 /\ status # \h40 /\ status # \h50
          THEN 0
          ELSE 1

i2c_write_L46(c) ==
    /\ At(c, "L46")
    /\ Return(c, WriteResult(TWSR), Ev("write", ctx[c].arg, WriteResult(TWSR)))
    /\ UNCHANGED <<regs, hw>>

i2c_read_ack_L56(c) ==
    /\ At(c, "L56")
    /\ TwcrWrite({"TWINT", "TWEN", "TWEA"})
    /\ Goto(c, "L57")
    /\ UNCHANGED <<TWBR, TWSR, TWDR, TWAR>>

i2c_read_ack_L57(c) ==
    /\ At(c, "L57")
    /\ "TWINT" \in TWCR
    /\ Goto(c, "L58")
    /\ UNCHANGED <<regs, hw>>

i2c_read_ack_L58(c) ==
    /\ At(c, "L58")
    /\ Return(c, TWDR, Ev("read_ack", TWDR, NoValue))
    /\ UNCHANGED <<regs, hw>>

i2c_read_no_ack_L62(c) ==
    /\ At(c, "L62")
    /\ TwcrWrite({"TWINT", "TWEN"})
    /\ Goto(c, "L63")
    /\ UNCHANGED <<TWBR, TWSR, TWDR, TWAR>>

i2c_read_no_ack_L63(c) ==
    /\ At(c, "L63")
    /\ "TWINT" \in TWCR
    /\ Goto(c, "L64")
    /\ UNCHANGED <<regs, hw>>

i2c_read_no_ack_L64(c) ==
    /\ At(c, "L64")
    /\ Return(c, TWDR, Ev("read_no_ack", TWDR, NoValue))
    /\ UNCHANGED <<regs, hw>>

Primitive(c) ==
    \/ i2c_start_L28(c) \/ i2c_start_L29(c)
    \/ i2c_stop_L38(c)
    \/ i2c_write_L42(c) \/ i2c_write_L43(c) \/ i2c_write_L44(c) \/ i2c_write_L46(c)
    \/ i2c_read_ack_L56(c) \/ i2c_read_ack_L57(c) \/ i2c_read_ack_L58(c)
    \/ i2c_read_no_ack_L62(c) \/ i2c_read_no_ack_L63(c) \/ i2c_read_no_ack_L64(c)

(***************************************************************************)
(* i2c_set_MCU_address                                                     *)
(***************************************************************************)

\* faulty variant of i2c_set_MCU_address: the address is stored unshifted
i2c_set_MCU_address_NoShift(c, OwnAddresses) ==
    /\ At(c, "idle")
    /\ \E a \in OwnAddresses :
         /\ Set(c, [Fresh EXCEPT !.op = "i2c_set_MCU_address", !.Slave_Address = a])
         /\ TWAR' = U8(a)
    /\ TwcrWrite({"TWEN", "TWEA"})
    /\ UNCHANGED <<TWBR, TWSR, TWDR>>

i2c_set_MCU_address(c, OwnAddresses) ==
    /\ At(c, "idle")
    /\ \E a \in OwnAddresses :
         /\ Set(c, [Fresh EXCEPT !.op = "i2c_set_MCU_address", !.Slave_Address = a])
         /\ TWAR' = U8(a * 2)
    /\ TwcrWrite({"TWEN", "TWEA"})
    /\ UNCHANGED <<TWBR, TWSR, TWDR>>

(***************************************************************************)
(* The address byte: Slave_Address << 1, with the read bit or without      *)
(***************************************************************************)
WriteAddressByte(a) == a * 2


\* faulty variant of ReadAddressByte: the read bit is left out
ReadAddressByte_NoReadBit(a) == a * 2

ReadAddressByte(a) == BitOr(a * 2, 1)

(***************************************************************************)
(* i2c_writeByte                                                           *)
(***************************************************************************)

\* faulty variant of i2c_writeByte: the call waits until no other context is
\* inside the driver
i2c_writeByte_Exclusive(c, Addresses, DataBytes) ==
    /\ At(c, "idle")
    /\ \A d \in DOMAIN ctx \ {c} : ctx[d].pc = "idle"
    /\ \E a \in Addresses, d \in DataBytes :
         Set(c, [Fresh EXCEPT !.op = "i2c_writeByte", !.pc = "L74",
                         !.Slave_Address = a, !.Data = d])
    /\ UNCHANGED <<regs, hw>>

i2c_writeByte(c, Addresses, DataBytes) ==
    /\ At(c, "idle")
    /\ \E a \in Addresses, d \in DataBytes :
         Set(c, [Fresh EXCEPT !.op = "i2c_writeByte", !.pc = "L74",
                         !.Slave_Address = a, !.Data = d])
    /\ UNCHANGED <<regs, hw>>

i2c_writeByte_L74(c) ==
    At(c, "L74") /\ Call(c, "L28", "L75") /\ UNCHANGED <<regs, hw>>

i2c_writeByte_L75(c) ==
    /\ At(c, "L75")
    /\ CallWrite(c, WriteAddressByte(ctx[c].Slave_Address), "L76")
    /\ UNCHANGED <<regs, hw>>


\* faulty variant of i2c_writeByte_L76: the data byte is skipped after a failed address write
i2c_writeByte_L76_SkipOnNack(c) ==
    /\ At(c, "L76")
    /\ IF ctx[c].rv = 0 THEN Goto(c, "L77") ELSE CallWrite(c, ctx[c].Data, "L77")
    /\ UNCHANGED <<regs, hw>>

i2c_writeByte_L76(c) ==
    At(c, "L76") /\ CallWrite(c, ctx[c].Data, "L77") /\ UNCHANGED <<regs, hw>>

i2c_writeByte_L77(c) ==
    At(c, "L77") /\ Call(c, "L38", "L78") /\ UNCHANGED <<regs, hw>>

i2c_writeByte_L78(c) ==
    At(c, "L78") /\ Leave(c, NoValue) /\ UNCHANGED <<regs, hw>>

(***************************************************************************)
(* i2c_readByte                                                            *)
(***************************************************************************)
i2c_readByte(c, Addresses) ==
    /\ At(c, "idle")
    /\ \E a \in Addresses :
         Set(c, [Fresh EXCEPT !.op = "i2c_readByte", !.pc = "L84",
                         !.Slave_Address = a])
    /\ UNCHANGED <<regs, hw>>

i2c_readByte_L84(c) ==
    At(c, "L84") /\ Call(c, "L28", "L85") /\ UNCHANGED <<regs, hw>>

i2c_readByte_L85(c) ==
    /\ At(c, "L85")
    /\ CallWrite(c, ReadAddressByte(ctx[c].Slave_Address), "L86")
    /\ UNCHANGED <<regs, hw>>


\* faulty variant of i2c_readByte_L86: the byte is read with acknowledgment
i2c_readByte_L86_WithAck(c) ==
    At(c, "L86") /\ Call(c, "L56", "L86r") /\ UNCHANGED <<regs, hw>>

i2c_readByte_L86(c) ==
    At(c, "L86") /\ Call(c, "L62", "L86r") /\ UNCHANGED <<regs, hw>>

\* data = <the value i2c_read_no_ack returned>
i2c_readByte_L86r(c) ==
    /\ At(c, "L86r")
    /\ Set(c, [ctx[c] EXCEPT !.pc = "L87", !.data = ctx[c].rv])
    /\ UNCHANGED <<regs, hw>>

i2c_readByte_L87(c) ==
    At(c, "L87") /\ Call(c, "L38", "L89") /\ UNCHANGED <<regs, hw>>

i2c_readByte_L89(c) ==
    At(c, "L89") /\ Leave(c, ctx[c].data) /\ UNCHANGED <<regs, hw>>

(***************************************************************************)
(* i2c_pagewrite.  str is the array the pointer points into, its last      *)
(* element the terminator; sp is the position of the pointer (from 1).     *)
(***************************************************************************)
\* the arrays of at most n bytes before a final terminator
Strings(Chars, n) ==
    UNION {{s \in [1..k -> Chars \cup {0}] : s[k] = 0} : k \in 1..(n + 1)}

\* the array of n bytes ch and a terminator
FullString(ch, n) == [k \in 1..(n + 1) |-> IF k <= n THEN ch ELSE 0]

i2c_pagewrite(c, Addresses, Strs) ==
    /\ At(c, "idle")
    /\ \E a \in Addresses, s \in Strs :
         Set(c, [Fresh EXCEPT !.op = "i2c_pagewrite", !.pc = "L93",
                         !.Slave_Address = a, !.str = s])
    /\ UNCHANGED <<regs, hw>>

i2c_pagewrite_L93(c) ==
    At(c, "L93") /\ Call(c, "L28", "L94") /\ UNCHANGED <<regs, hw>>

i2c_pagewrite_L94(c) ==
    /\ At(c, "L94")
    /\ CallWrite(c, WriteAddressByte(ctx[c].Slave_Address), "L96")
    /\ UNCHANGED <<regs, hw>>


\* faulty variant of i2c_pagewrite_L96: the loop ends after the last element
\* of the array instead of before the first terminator
i2c_pagewrite_L96_ByLength(c) ==
    /\ At(c, "L96")
    /\ Goto(c, IF ctx[c].sp <= Len(ctx[c].str) THEN "L97" ELSE "L101")
    /\ UNCHANGED <<regs, hw>>

\* while(*str != '\0')
i2c_pagewrite_L96(c) ==
    /\ At(c, "L96")
    /\ Goto(c, IF ctx[c].str[ctx[c].sp] # 0 THEN "L97" ELSE "L101")
    /\ UNCHANGED <<regs, hw>>

i2c_pagewrite_L97(c) ==
    /\ At(c, "L97")
    /\ CallWrite(c, ctx[c].str[ctx[c].sp], "L97r")
    /\ UNCHANGED <<regs, hw>>

\* if (!<the value i2c_write returned>) return 0; str++;
i2c_pagewrite_L97r(c) ==
    /\ At(c, "L97r")
    /\ IF ctx[c].rv = 0
         THEN Leave(c, 0)
         ELSE Set(c, [ctx[c] EXCEPT !.pc = "L96", !.sp = @ + 1])
    /\ UNCHANGED <<regs, hw>>

i2c_pagewrite_L101(c) ==
    At(c, "L101") /\ Call(c, "L38", "L102") /\ UNCHANGED <<regs, hw>>

i2c_pagewrite_L102(c) ==
    At(c, "L102") /\ Leave(c, 1) /\ UNCHANGED <<regs, hw>>

(***************************************************************************)
(* i2c_pageread.  buffer is the caller's array (element 1 is buffer[0]).   *)
(***************************************************************************)
\* buffer[k] = v
BufferStore(r, k, v) ==
    [r EXCEPT !.buffer = [@ EXCEPT ![k + 1] = v],
              !.bufWrites = Append(@, <<k, v>>)]

i2c_pageread(c, Addresses, Lengths, size) ==
    /\ At(c, "idle")
    /\ \E a \in Addresses, n \in Lengths :
         Set(c, [Fresh EXCEPT !.op = "i2c_pageread", !.pc = "L106",
                         !.Slave_Address = a, !.length = n,
                         !.buffer = [k \in 1..size |-> \hFF]])
    /\ UNCHANGED <<regs, hw>>

i2c_pageread_L106(c) ==
    At(c, "L106") /\ Call(c, "L28", "L107") /\ UNCHANGED <<regs, hw>>

i2c_pageread_L107(c) ==
    /\ At(c, "L107")
    /\ CallWrite(c, ReadAddressByte(ctx[c].Slave_Address), "L109")
    /\ UNCHANGED <<regs, hw>>

\* for (uint8_t i = 0; ...
i2c_pageread_L109(c) ==
    /\ At(c, "L109")
    /\ Set(c, [ctx[c] EXCEPT !.pc = "L109c", !.i = 0])
    /\ UNCHANGED <<regs, hw>>


\* faulty variant of i2c_pageread_L109c: the loop condition is i <= length
i2c_pageread_L109c_Inclusive(c) ==
    /\ At(c, "L109c")
    /\ Goto(c, IF ctx[c].i <= ctx[c].length THEN "L110" ELSE "L117")
    /\ UNCHANGED <<regs, hw>>

\* ... i < length; ...
i2c_pageread_L109c(c) ==
    /\ At(c, "L109c")
    /\ Goto(c, IF ctx[c].i < ctx[c].length THEN "L110" ELSE "L117")
    /\ UNCHANGED <<regs, hw>>


\* faulty variant of i2c_pageread_L110: the last index is taken to be length
i2c_pageread_L110_OffByOne(c) ==
    /\ At(c, "L110")
    /\ IF ctx[c].i = ctx[c].length
         THEN Call(c, "L62", "L111")
         ELSE Call(c, "L56", "L113")
    /\ UNCHANGED <<regs, hw>>

\* if (i == length - 1): the last byte is read without acknowledgment
i2c_pageread_L110(c) ==
    /\ At(c, "L110")
    /\ IF ctx[c].i = ctx[c].length - 1
         THEN Call(c, "L62", "L111")
         ELSE Call(c, "L56", "L113")
    /\ UNCHANGED <<regs, hw>>

\* buffer[i] = <the value i2c_read_no_ack returned>; i++
i2c_pageread_L111(c) ==
    /\ At(c, "L111")
    /\ Set(c, [BufferStore(ctx[c], ctx[c].i, ctx[c].rv)
                 EXCEPT !.pc = "L109c", !.i = U8(@ + 1)])
    /\ UNCHANGED <<regs, hw>>

\* buffer[i] = <the value i2c_read_ack returned>; i++
i2c_pageread_L113(c) ==
    /\ At(c, "L113")
    /\ Set(c, [BufferStore(ctx[c], ctx[c].i, ctx[c].rv)
                 EXCEPT !.pc = "L109c", !.i = U8(@ + 1)])
    /\ UNCHANGED <<regs, hw>>


\* faulty variant of i2c_pageread_L117: the last byte is not overwritten
i2c_pageread_L117_NoTerminator(c) ==
    At(c, "L117") /\ Goto(c, "L121") /\ UNCHANGED <<regs, hw>>

\* if (length > 0) buffer[length - 1] = '\0';
i2c_pageread_L117(c) ==
    /\ At(c, "L117")
    /\ IF ctx[c].length > 0
         THEN Set(c, [BufferStore(ctx[c], ctx[c].length - 1, 0) EXCEPT !.pc = "L121"])
         ELSE Goto(c, "L121")
    /\ UNCHANGED <<regs, hw>>

i2c_pageread_L121(c) ==
    At(c, "L121") /\ Call(c, "L38", "L122") /\ UNCHANGED <<regs, hw>>

i2c_pageread_L122(c) ==
    At(c, "L122") /\ Leave(c, NoValue) /\ UNCHANGED <<regs, hw>>

(***************************************************************************)
(* The steps of the composed operations, and their calls                   *)
(***************************************************************************)
ComposedWriteByte(c) ==
    \/ i2c_writeByte_L74(c) \/ i2c_writeByte_L75(c) \/ i2c_writeByte_L76(c)
    \/ i2c_writeByte_L77(c) \/ i2c_writeByte_L78(c)

ComposedReadByte(c) ==
    \/ i2c_readByte_L84(c) \/ i2c_readByte_L85(c) \/ i2c_readByte_L86(c)
    \/ i2c_readByte_L86r(c) \/ i2c_readByte_L87(c) \/ i2c_readByte_L89(c)

ComposedPagewrite(c) ==
    \/ i2c_pagewrite_L93(c) \/ i2c_pagewrite_L94(c) \/ i2c_pagewrite_L96(c)
    \/ i2c_pagewrite_L97(c) \/ i2c_pagewrite_L97r(c) \/ i2c_pagewrite_L101(c)
    \/ i2c_pagewrite_L102(c)

ComposedPageread(c) ==
    \/ i2c_pageread_L106(c) \/ i2c_pageread_L107(c) \/ i2c_pageread_L109(c)
    \/ i2c_pageread_L109c(c) \/ i2c_pageread_L110(c) \/ i2c_pageread_L111(c)
    \/ i2c_pageread_L113(c) \/ i2c_pageread_L117(c) \/ i2c_pageread_L121(c)
    \/ i2c_pageread_L122(c)

Composed(c) ==
    \/ ComposedWriteByte(c) \/ ComposedReadByte(c)
    \/ ComposedPagewrite(c) \/ ComposedPageread(c)

\* a call of any composed operation
Calls(c, Addresses, DataBytes, Strs, Lengths, size) ==
    \/ i2c_writeByte(c, Addresses, DataBytes)
    \/ i2c_readByte(c, Addresses)
    \/ i2c_pagewrite(c, Addresses, Strs)
    \/ i2c_pageread(c, Addresses, Lengths, size)

\* calls of the primitive operations from the application
i2c_start(c) ==
    /\ At(c, "idle")
    /\ Set(c, [Fresh EXCEPT !.op = "i2c_start", !.pc = "L28"])
    /\ UNCHANGED <<regs, hw>>

i2c_stop(c) ==
    /\ At(c, "idle")
    /\ Set(c, [Fresh EXCEPT !.op = "i2c_stop", !.pc = "L38"])
    /\ UNCHANGED <<regs, hw>>

i2c_write(c, DataBytes) ==
    /\ At(c, "idle")
    /\ \E d \in DataBytes :
         Set(c, [Fresh EXCEPT !.op = "i2c_write", !.pc = "L42", !.arg = d])
    /\ UNCHANGED <<regs, hw>>

i2c_read_ack(c) ==
    /\ At(c, "idle")
    /\ Set(c, [Fresh EXCEPT !.op = "i2c_read_ack", !.pc = "L56"])
    /\ UNCHANGED <<regs, hw>>

i2c_read_no_ack(c) ==
    /\ At(c, "idle")
    /\ Set(c, [Fresh EXCEPT !.op = "i2c_read_no_ack", !.pc = "L62"])
    /\ UNCHANGED <<regs, hw>>

PrimitiveCalls(c, DataBytes) ==
    \/ i2c_start(c) \/ i2c_stop(c) \/ i2c_write(c, DataBytes)
    \/ i2c_read_ack(c) \/ i2c_read_no_ack(c)

\* The TWI registers as reset leaves them (TWSR 0xF8, TWDR 0xFF, TWAR 0xFE),
\* before i2c_init; LowBits are the values of bits 2:0 of TWSR.
InitWith(LowBits) ==
    /\ TWBR = 0
    /\ TWSR \in {\hF8 + l : l \in LowBits}
    /\ TWCR = {}
    /\ TWDR = \hFF
    /\ TWAR = \hFE
    /\ hwPending = "none"
    /\ busPhase = "Idle"
    /\ busDir = "W"
    /\ openStarts = 0
    /\ ctx = [c \in Contexts |-> Fresh]

(***************************************************************************)
(* Spec: one caller invoking i2c_init, i2c_set_MCU_address and the         *)
(* composed operations, any number of times in any order, against a bus    *)
(* that may or may not acknowledge each byte.                              *)
(***************************************************************************)
Init == InitWith({0})

SpecAddresses == {\h10, \h7F}

SpecData == {\hAA}

SpecChars == {\h41}

SpecRxBytes == {\h00, \h5A}

SpecFreqs == {50, 100, 400}

SpecOwn == {\h42}

Next ==
    \/ HwComplete(MasterCodes, SpecRxBytes)
    \/ HwStopDone
    \/ \E c \in Contexts :
        \/ i2c_init(c, SpecFreqs)
        \/ i2c_set_MCU_address(c, SpecOwn)
        \/ Calls(c, SpecAddresses, SpecData, Strings(SpecChars, MaxStrLen),
                 0..MaxLength, MaxLength + 1)
        \/ Primitive(c)
        \/ Composed(c)

Spec == Init /\ [][Next]_vars

(***************************************************************************)
(* SpecAddr: the composed operations for every 7-bit slave address, the    *)
(* page transfers at their longest.                                        *)
(***************************************************************************)
AllAddresses == 0..127

NextAddr ==
    \/ HwComplete(MasterCodes, {\h5A})
    \/ HwStopDone
    \/ \E c \in Contexts :
        \/ Calls(c, AllAddresses, SpecData, {FullString(\h41, MaxStrLen)},
                 {MaxLength}, MaxLength)
        \/ Primitive(c)
        \/ Composed(c)

SpecAddr == Init /\ [][NextAddr]_vars

(***************************************************************************)
(* SpecRead: i2c_pageread for short lengths and for the longest length a   *)
(* uint8_t holds.                                                          *)
(***************************************************************************)
ReadLengths == (0..MaxLength) \cup {255}

NextRead ==
    \/ HwComplete(MasterCodes, {\h5A})
    \/ HwStopDone
    \/ \E c \in Contexts :
        \/ i2c_pageread(c, SpecAddresses, ReadLengths, 256)
        \/ Primitive(c)
        \/ ComposedPageread(c)

SpecRead == Init /\ [][NextRead]_vars

(***************************************************************************)
(* SpecApi: the application calls any function of the driver, primitives   *)
(* included; the peripheral may report any status, and the low bits of     *)
(* TWSR start at any value.                                                *)
(***************************************************************************)
InitApi == InitWith(0..7)

NextApi ==
    \/ HwComplete(AnyCodes, {\h5A})
    \/ HwStopDone
    \/ \E c \in Contexts :
        \/ i2c_init(c, {100})
        \/ PrimitiveCalls(c, SpecData)
        \/ Calls(c, {\h10}, SpecData, Strings(SpecChars, MaxStrLen),
                 0..MaxLength, MaxLength + 1)
        \/ Primitive(c)
        \/ Composed(c)

SpecApi == InitApi /\ [][NextApi]_vars

(***************************************************************************)
(* SpecWrite: i2c_pagewrite for arrays of two different characters with    *)
(* terminators at any position, bytes after a terminator included.         *)
(***************************************************************************)
WriteChars == {\h41, \h42}

\* the primitive operations i2c_pagewrite calls
WritePrimitives(c) ==
    \/ i2c_start_L28(c) \/ i2c_start_L29(c)
    \/ i2c_stop_L38(c)
    \/ i2c_write_L42(c) \/ i2c_write_L43(c) \/ i2c_write_L44(c) \/ i2c_write_L46(c)

NextWrite ==
    \/ HwComplete(MasterCodes, {\h5A})
    \/ HwStopDone
    \/ \E c \in Contexts :
        \/ i2c_pagewrite(c, {\h10}, Strings(WriteChars, MaxStrLen + 1))
        \/ WritePrimitives(c)
        \/ ComposedPagewrite(c)

SpecWrite == Init /\ [][NextWrite]_vars

(***************************************************************************)
(* SpecInit: i2c_init as the first call after reset, for every value a     *)
(* uint16_t freq can have (the guard of i2c_init leaves out the values     *)
(* whose 16-bit product freq * 1000 is 0, a division by zero).             *)
(***************************************************************************)
AllFreqs == 0..65535

NextInit ==
    \E c \in Contexts : ctx[c].op = "none" /\ i2c_init(c, AllFreqs)

SpecInit == Init /\ [][NextInit]_vars

(***************************************************************************)
(* SpecDrv: the application calls every function of the driver, in any     *)
(* order, from reset.                                                      *)
(***************************************************************************)
NextDrv ==
    \/ HwComplete(MasterCodes, {\h5A})
    \/ HwStopDone
    \/ \E c \in Contexts :
        \/ i2c_init(c, {100, 400})
        \/ i2c_set_MCU_address(c, SpecOwn)
        \/ PrimitiveCalls(c, SpecData)
        \/ Calls(c, {\h10}, SpecData, Strings(SpecChars, MaxStrLen),
                 0..MaxLength, MaxLength + 1)
        \/ Primitive(c)
        \/ Composed(c)

SpecDrv == Init /\ [][NextDrv]_vars

(***************************************************************************)
(* SpecLive: the composed operations, i2c_pageread up to the longest       *)
(* length, with a processor that goes on executing the function it is in   *)
(* and a peripheral that completes every operation it was given.           *)
(***************************************************************************)
NextLive ==
    \/ HwComplete(MasterCodes, {\h5A})
    \/ HwStopDone
    \/ \E c \in Contexts :
        \/ Calls(c, {\h10}, SpecData, Strings(SpecChars, MaxStrLen),
                 ReadLengths, 256)
        \/ Primitive(c)
        \/ Composed(c)

\* the next step of the function context c is in
Running(c) == Primitive(c) \/ Composed(c)

SpecLive ==
    /\ Init
    /\ [][NextLive]_vars
    /\ WF_vars(HwComplete(MasterCodes, {\h5A}))
    /\ \A c \in Contexts : WF_vars(Running(c))

(***************************************************************************)
(* SpecIsr: two execution contexts use the driver, the main code and an    *)
(* interrupt handler.  The handler is entered between any two steps of     *)
(* the main code (the driver never disables interrupts) and runs until it  *)
(* returns; the main code runs only while the handler is not active.       *)
(***************************************************************************)
IsrContexts == {"main", "isr"}

InitIsr ==
    /\ TWBR = 0
    /\ TWSR = \hF8
    /\ TWCR = {}
    /\ TWDR = \hFF
    /\ TWAR = \hFE
    /\ hwPending = "none"
    /\ busPhase = "Idle"
    /\ busDir = "W"
    /\ openStarts = 0
    /\ ctx = [c \in IsrContexts |-> Fresh]

\* the calls a context makes
IsrCalls(c) ==
    Calls(c, {\h10}, SpecData, {FullString(\h41, 1)}, {2}, 2)

NextIsr ==
    \/ HwComplete(MasterCodes, {\h5A})
    \/ HwStopDone
    \/ /\ ctx["isr"].pc = "idle"
       /\ \/ IsrCalls("main")
          \/ Primitive("main")
          \/ Composed("main")
    \/ IsrCalls("isr")
    \/ Primitive("isr")
    \/ Composed("isr")

SpecIsr == InitIsr /\ [][NextIsr]_vars

(***************************************************************************)
(* Properties                                                              *)
(***************************************************************************)
ComposedNames == {"i2c_writeByte", "i2c_readByte", "i2c_pagewrite", "i2c_pageread"}

\* context c has returned from function f
Done(c, f) == ctx[c].pc = "idle" /\ ctx[c].op = f

\* context c has returned from a composed operation
DoneComposed(c) == ctx[c].pc = "idle" /\ ctx[c].op \in ComposedNames

\* the names of the primitive operations in a log
OpsOf(log) == [k \in 1..Len(log) |-> log[k].op]

\* how many times primitive o is in a log
Count(log, o) == Cardinality({k \in 1..Len(log) : log[k].op = o})

\* the i2c_write calls of a log
WritesOf(log) == SelectSeq(log, LAMBDA e : e.op = "write")

\* context c is where its last call of i2c_write returned to
WriteReturned(c) ==
    /\ ctx[c].pc = ctx[c].retpc
    /\ ctx[c].log # <<>>
    /\ ctx[c].log[Len(ctx[c].log)].op = "write"

\* C1: every composed operation, whatever bytes are acknowledged, has issued
\* exactly one i2c_stop after its i2c_start when it returns, and the bus is
\* not left started-but-unstopped.
C1_OneStopAfterStart ==
    \A c \in Contexts :
        DoneComposed(c) =>
            /\ Count(ctx[c].log, "start") = 1
            /\ Count(ctx[c].log, "stop") = 1
            /\ ctx[c].log[1].op = "start"
            /\ ctx[c].log[Len(ctx[c].log)].op = "stop"
            /\ openStarts = 0

\* C2: i2c_pagewrite returns 1 if and only if every byte it transmitted,
\* the address byte included, was acknowledged.
C2_PagewriteResultIffAllAcked ==
    \A c \in Contexts :
        Done(c, "i2c_pagewrite") =>
            (ctx[c].result = 1 <=>
                \A k \in 1..Len(ctx[c].log) :
                    ctx[c].log[k].op = "write" => ctx[c].log[k].ret = 1)

\* C3: when the k-th data byte of i2c_pagewrite is the first that is not
\* acknowledged, i2c_pagewrite returns 0, has loaded no data byte after the
\* k-th into the data register, and has issued a stop when it returns.
C3_FirstNackStopsAndReturns0 ==
    \A c \in Contexts :
        Done(c, "i2c_pagewrite") =>
            LET w == WritesOf(ctx[c].log)
            IN  \A k \in 1..(Len(w) - 1) :
                    (w[k + 1].ret = 0 /\ \A j \in 1..(k - 1) : w[j + 1].ret = 1) =>
                        /\ ctx[c].result = 0
                        /\ Len(ctx[c].loads) = k + 1
                        /\ Count(ctx[c].log, "stop") = 1

\* C4: over any sequence of calls of the composed operations by one caller,
\* no start condition is issued while a started transaction is not stopped.
C4_NoStartWhileOpen == openStarts <= 1

\* C5: i2c_write returns 1 exactly when TWSR with its low three bits cleared
\* is one of 0x18, 0x28, 0x40, 0x50, and 0 for every other value of TWSR.
C5_WriteResultByStatus ==
    \A c \in Contexts :
        WriteReturned(c) =>
            /\ ctx[c].rv = IF (TWSR \div 8) * 8 \in {\h18, \h28, \h40, \h50} THEN 1 ELSE 0
            /\ ctx[c].log[Len(ctx[c].log)].ret = ctx[c].rv

\* C5 witness: an accepted status read with all three low bits of TWSR set
C5_Witness ==
    \E c \in Contexts :
        WriteReturned(c) /\ TWSR = \h50 + 7 /\ ctx[c].rv = 1

\* C6: i2c_pageread with length N >= 1 performs exactly N reads between the
\* address write and the stop: N - 1 times i2c_read_ack, then i2c_read_no_ack.
C6_PagereadReadSequence ==
    \A c \in Contexts :
        (Done(c, "i2c_pageread") /\ ctx[c].length >= 1) =>
            LET log == ctx[c].log
                n == ctx[c].length
            IN  /\ Len(log) = n + 3
                /\ log[1].op = "start"
                /\ log[2].op = "write"
                /\ \A k \in 1..n :
                       log[2 + k].op = IF k = n THEN "read_no_ack" ELSE "read_ack"
                /\ log[n + 3].op = "stop"

\* C6 witness: a page read of 255 bytes has returned
C6_Witness ==
    \E c \in Contexts :
        /\ Done(c, "i2c_pageread")
        /\ ctx[c].length = 255
        /\ ctx[c].log[256].op = "read_ack"
        /\ ctx[c].log[257].op = "read_no_ack"

\* C7: i2c_pageread with length 0 issues start, one write of the address
\* byte and stop, reads nothing and stores nothing to the caller's buffer.
C7_PagereadZeroLength ==
    \A c \in Contexts :
        (Done(c, "i2c_pageread") /\ ctx[c].length = 0) =>
            /\ OpsOf(ctx[c].log) = <<"start", "write", "stop">>
            /\ ctx[c].loads = <<2 * ctx[c].Slave_Address + 1>>
            /\ ctx[c].bufWrites = <<>>
            /\ \A k \in DOMAIN ctx[c].buffer : ctx[c].buffer[k] = \hFF

\* C7 witness: a page read of length 0 has returned, its address byte not acknowledged
C7_Witness ==
    \E c \in Contexts :
        /\ Done(c, "i2c_pageread")
        /\ ctx[c].length = 0
        /\ Len(ctx[c].log) = 3
        /\ ctx[c].log[2].ret = 0

\* C8: i2c_init(freq) programs TWBR with (F_CPU / (freq * 1000) - 16) / 2 at
\* the widths of the code whenever the quotient is at least 16 and the result
\* fits eight bits, and i2c_init(100) programs 32.
C8_BitRateFormula ==
    \A c \in Contexts :
        Done(c, "i2c_init") =>
            LET q == F_CPU \div U16(ctx[c].freq * 1000)
            IN  /\ (q >= 16 /\ (q - 16) \div 2 <= 255) =>
                       (TWBR = (q - 16) \div 2 /\ TWBR >= 0)
                /\ ctx[c].freq = 100 => TWBR = 32

\* C9: i2c_writeByte performs start, write of the address byte, write of
\* the data byte, stop, in this order, whether or not a byte is acknowledged.
C9_WriteByteSequence ==
    \A c \in Contexts :
        Done(c, "i2c_writeByte") =>
            /\ OpsOf(ctx[c].log) = <<"start", "write", "write", "stop">>
            /\ ctx[c].log[2].byte = 2 * ctx[c].Slave_Address
            /\ ctx[c].log[3].byte = ctx[c].Data
            /\ ctx[c].loads = <<2 * ctx[c].Slave_Address, ctx[c].Data>>

\* C9 witness: i2c_writeByte(0x10, 0xAA) has returned, neither byte acknowledged
C9_Witness ==
    \E c \in Contexts :
        /\ Done(c, "i2c_writeByte")
        /\ ctx[c].loads = <<\h20, \hAA>>
        /\ ctx[c].log[2].ret = 0
        /\ ctx[c].log[3].ret = 0

\* C10: in every composed operation the first byte loaded into TWDR after the
\* start condition is 2 * a for i2c_writeByte and i2c_pagewrite and 2 * a + 1
\* for i2c_readByte and i2c_pageread, for every address a in 0..127.
C10_FirstLoadIsAddressByte ==
    \A c \in Contexts :
        (ctx[c].op \in ComposedNames /\ ctx[c].loads # <<>>) =>
            /\ ctx[c].log # <<>>
            /\ ctx[c].log[1].op = "start"
            /\ ctx[c].loads[1] =
                   IF ctx[c].op \in {"i2c_writeByte", "i2c_pagewrite"}
                     THEN 2 * ctx[c].Slave_Address
                     ELSE 2 * ctx[c].Slave_Address + 1

\* C10 witness: a page read from address 127 has loaded 0xFF as its first byte
C10_Witness ==
    \E c \in Contexts :
        /\ Done(c, "i2c_pageread")
        /\ ctx[c].Slave_Address = 127
        /\ ctx[c].loads = <<\hFF>>

\* C11: i2c_readByte performs start, write of the address byte with the read
\* bit, one read without acknowledgment and stop, in this order, and returns
\* the value TWDR held at that read, whether or not the address byte was
\* acknowledged.
C11_ReadByteSequenceAndResult ==
    \A c \in Contexts :
        Done(c, "i2c_readByte") =>
            /\ OpsOf(ctx[c].log) = <<"start", "write", "read_no_ack", "stop">>
            /\ ctx[c].log[2].byte = 2 * ctx[c].Slave_Address + 1
            /\ ctx[c].loads = <<2 * ctx[c].Slave_Address + 1>>
            /\ ctx[c].result = ctx[c].log[3].byte
            /\ ctx[c].result = TWDR

\* C11 witness: i2c_readByte has returned 0x5A, its address byte not acknowledged
C11_Witness ==
    \E c \in Contexts :
        /\ Done(c, "i2c_readByte")
        /\ ctx[c].log[2].ret = 0
        /\ ctx[c].result = \h5A

\* C12: after i2c_pageread with length N >= 1 has returned, buffer[N-1] is 0
\* whatever byte was received last, buffer[i] for i <= N-2 is the i-th byte
\* received, and no element at index N or above has been stored to.
C12_PagereadBuffer ==
    \A c \in Contexts :
        (Done(c, "i2c_pageread") /\ ctx[c].length >= 1) =>
            LET n == ctx[c].length
            IN  /\ ctx[c].buffer[n] = 0
                /\ \A k \in 1..(n - 1) : ctx[c].buffer[k] = ctx[c].log[2 + k].byte
                /\ \A k \in (n + 1)..Len(ctx[c].buffer) : ctx[c].buffer[k] = \hFF
                /\ \A w \in 1..Len(ctx[c].bufWrites) : ctx[c].bufWrites[w][1] < n

\* C12 witness: a page read of 3 bytes received 0x5A, 0x00, 0x5A
C12_Witness ==
    \E c \in Contexts :
        /\ Done(c, "i2c_pageread")
        /\ ctx[c].length = 3
        /\ ctx[c].log[3].byte = \h5A
        /\ ctx[c].log[5].byte = \h5A
        /\ ctx[c].buffer = <<\h5A, 0, 0, \hFF>>

\* the position of the first terminator of an array
FirstNul(s) == CHOOSE k \in 1..Len(s) : s[k] = 0 /\ \A j \in 1..(k - 1) : s[j] # 0

\* the bytes of an array that precede its first terminator
BeforeNul(s) == SubSeq(s, 1, FirstNul(s) - 1)

\* C19: when every byte is acknowledged, the bytes i2c_pagewrite transmits
\* after the address byte are the bytes of str before its first 0x00, in
\* order; the 0x00 and what follows it are not transmitted, and an empty
\* string transmits the address byte alone between start and stop.
C19_PagewriteSendsBeforeNul ==
    \A c \in Contexts :
        (/\ Done(c, "i2c_pagewrite")
         /\ \A k \in 1..Len(ctx[c].log) :
                ctx[c].log[k].op = "write" => ctx[c].log[k].ret = 1) =>
            LET sent == <<2 * ctx[c].Slave_Address>> \o BeforeNul(ctx[c].str)
            IN  /\ ctx[c].loads = sent
                /\ [k \in 1..Len(WritesOf(ctx[c].log)) |-> WritesOf(ctx[c].log)[k].byte] = sent
                /\ OpsOf(ctx[c].log) =
                       <<"start">> \o [k \in 1..Len(sent) |-> "write"] \o <<"stop">>

\* C19 witness: "B" followed by a terminator and a further 'A' was sent as
\* the address byte and 'B'
C19_Witness ==
    \E c \in Contexts :
        /\ Done(c, "i2c_pagewrite")
        /\ ctx[c].str = <<\h42, 0, \h41, 0>>
        /\ ctx[c].result = 1
        /\ ctx[c].loads = <<\h20, \h42>>

\* the primitive whose return is the last event of context c, when c is
\* where that primitive returned to
Returned(c) ==
    IF ctx[c].pc = ctx[c].retpc /\ ctx[c].log # <<>>
      THEN ctx[c].log[Len(ctx[c].log)].op
      ELSE "none"

\* TWINT is set and it was set for the operation triggered last
FlagObserved == "TWINT" \in TWCR /\ hwPending = "none"

\* C14: i2c_start, i2c_write, i2c_read_ack and i2c_read_no_ack return only
\* with TWINT observed set after their own trigger (which cleared it);
\* i2c_write reads TWSR (line 46) and the read primitives read TWDR (lines
\* 58, 64) only after that observation; i2c_stop has written TWCR once and
\* has returned with TWINT still clear, so it did not wait for it.
C14_ReturnOnlyAfterFlag ==
    \A c \in Contexts :
        /\ ctx[c].pc \in {"L46", "L58", "L64"} => FlagObserved
        /\ Returned(c) \in {"start", "write", "read_ack", "read_no_ack"} => FlagObserved
        /\ ctx[c].pc \in {"L29", "L44", "L57", "L63"} /\ "TWINT" \in TWCR =>
               hwPending = "none"
        /\ Returned(c) = "stop" =>
               /\ "TWINT" \notin TWCR
               /\ "TWEN" \in TWCR
               /\ TWCR \subseteq {"TWEN", "TWSTO"}

\* C14 witness: i2c_read_ack called directly has returned the content of TWDR
\* after the peripheral set TWINT, with a status that is none of a master's
C14_Witness ==
    \E c \in Contexts :
        /\ Done(c, "i2c_read_ack")
        /\ Returned(c) = "read_ack"
        /\ ctx[c].rv = \h5A
        /\ FlagObserved
        /\ BitAnd(TWSR, \hF8) = \hF8

\* the step is a call of function f by context c
IsCallOf(c, f) ==
    ctx[c].pc = "idle" /\ ctx'[c].op = f /\ ctx'[c] # ctx[c]

\* what a call of i2c_set_MCU_address changes and what it leaves alone
SetAddressFrame ==
    \A c \in Contexts :
        IsCallOf(c, "i2c_set_MCU_address") =>
            /\ TWAR' = (2 * ctx'[c].Slave_Address) % 256
            /\ TWCR' \ {"TWINT"} = {"TWEN", "TWEA"}
            /\ TWBR' = TWBR /\ TWDR' = TWDR /\ TWSR' = TWSR
            /\ hw' = hw
            /\ ctx'[c].log = <<>> /\ ctx'[c].loads = <<>>

\* the primitives, the bytes and the result of a returned composed operation,
\* given its arguments and what the bus answered
ComposedAsAlone(c) ==
    LET r == ctx[c]
        w == WritesOf(r.log)
        acked == \A k \in 1..Len(w) : w[k].ret = 1
    IN  /\ Done(c, "i2c_writeByte") =>
              /\ OpsOf(r.log) = <<"start", "write", "write", "stop">>
              /\ r.loads = <<2 * r.Slave_Address, r.Data>>
        /\ Done(c, "i2c_readByte") =>
              /\ OpsOf(r.log) = <<"start", "write", "read_no_ack", "stop">>
              /\ r.loads = <<2 * r.Slave_Address + 1>>
              /\ r.result = r.log[3].byte
        /\ Done(c, "i2c_pagewrite") =>
              /\ r.loads = <<2 * r.Slave_Address>> \o SubSeq(r.str, 1, Len(r.loads) - 1)
              /\ r.result = 1 =>
                    /\ r.loads = <<2 * r.Slave_Address>> \o BeforeNul(r.str)
                    /\ OpsOf(r.log) = <<"start">> \o [k \in 1..Len(r.loads) |-> "write"]
                                          \o <<"stop">>
              /\ r.result = 0 =>
                    /\ w[Len(w)].ret = 0
                    /\ OpsOf(r.log) = <<"start">> \o [k \in 1..Len(r.loads) |-> "write"]
        /\ Done(c, "i2c_pageread") =>
              /\ r.loads = <<2 * r.Slave_Address + 1>>
              /\ OpsOf(r.log) =
                     <<"start", "write">>
                         \o [k \in 1..r.length |->
                                IF k = r.length THEN "read_no_ack" ELSE "read_ack"]
                         \o <<"stop">>

\* C15: i2c_set_MCU_address(a) stores a << 1 (8 bits) to TWAR and TWEN | TWEA
\* to TWCR, leaves TWBR and TWDR as they are and starts or stops nothing on
\* the bus; with calls of it before and between the composed operations,
\* every composed operation still has the primitives, the bytes and the
\* result that its arguments and the answers of the bus determine.
C15_SetAddressFrame ==
    /\ [][SetAddressFrame]_vars
    /\ [](\A c \in Contexts : ComposedAsAlone(c))

\* C15 witness: i2c_writeByte has returned with the own address 0x42 set
\* (TWAR 0x84) by a call of i2c_set_MCU_address after i2c_init(100)
C15_Witness ==
    \E c \in Contexts :
        /\ Done(c, "i2c_writeByte")
        /\ TWAR = \h84
        /\ TWBR = 108
        /\ Len(ctx[c].log) = 4

\* C17: i2c_init has no error outcome: for every freq whose 16-bit product
\* freq * 1000 is not 0 it returns (a void function), with TWBR holding
\* (F_CPU / product - 16) / 2 cut to 8 bits, the peripheral enabled, the
\* prescaler bits 0 and nothing started on the bus.
C17_InitNeverRejects ==
    \A c \in Contexts :
        Done(c, "i2c_init") =>
            LET product == (ctx[c].freq * 1000) % 65536
                quotient == F_CPU \div product
            IN  /\ product # 0
                /\ TWBR = ((quotient - 16) \div 2) % 256
                /\ TWCR = {"TWEN"}
                /\ TWSR % 4 = 0
                /\ ctx[c].result = NoValue
                /\ hwPending = "none" /\ busPhase = "Idle"

\* C17 witness: i2c_init(1000), a bus clock no TWBR value gives (8 MHz / 1 MHz
\* is below 16), has returned with TWBR = 227 and the peripheral enabled
C17_Witness ==
    \E c \in Contexts :
        /\ Done(c, "i2c_init")
        /\ ctx[c].freq = 1000
        /\ TWBR = 227
        /\ "TWEN" \in TWCR

\* C18: once i2c_init has set TWEN it stays set through every step of every
\* function of the driver; every step of the driver that changes TWCR leaves
\* TWEN set, and no step other than a call of i2c_init changes TWBR.
C18_EnableKept ==
    /\ [](\A c \in Contexts : Done(c, "i2c_init") => "TWEN" \in TWCR)
    /\ [][("TWEN" \in TWCR => "TWEN" \in TWCR')
          /\ (TWCR' # TWCR /\ ctx' # ctx => "TWEN" \in TWCR')
          /\ (TWBR' # TWBR => \E c \in Contexts : IsCallOf(c, "i2c_init"))]_vars

\* C18 witness: after i2c_init(100), i2c_set_MCU_address(0x42) and further
\* calls, i2c_stop called directly has returned and TWEN is set
C18_Witness ==
    \E c \in Contexts :
        /\ Done(c, "i2c_stop")
        /\ TWBR = 108
        /\ TWAR = \h84
        /\ TWCR = {"TWEN", "TWSTO"}

\* the loops while (!(TWCR & (1 << TWINT)));
PollLabels == {"L29", "L44", "L57", "L63"}

\* C13: when the peripheral sets TWINT after every operation it was given,
\* every call of a composed operation returns (i2c_pageread for lengths up
\* to 255); a context in a polling loop with TWINT clear has no step of its
\* own, so that nothing but the peripheral gets it out of the loop.
C13_CallsReturn ==
    /\ \A c \in Contexts : (ctx[c].pc # "idle") ~> (ctx[c].pc = "idle")
    /\ [](\A c \in Contexts :
              (ctx[c].pc \in PollLabels /\ "TWINT" \notin TWCR) => ~ENABLED Running(c))

\* C13 witness: i2c_pageread(.., 255) is in the loop of i2c_read_ack for its
\* 254th byte, TWINT clear, the reception not complete
C13_Witness ==
    \E c \in Contexts :
        /\ ctx[c].op = "i2c_pageread"
        /\ ctx[c].length = 255
        /\ ctx[c].i = 253
        /\ ctx[c].pc = "L57"
        /\ "TWINT" \notin TWCR
        /\ hwPending = "rxack"

\* the labels inside the primitive operations
PrimitiveLabels ==
    {"L28", "L29", "L38", "L42", "L43", "L44", "L46",
     "L56", "L57", "L58", "L62", "L63", "L64"}

\* the phases the bus can be in after the primitives of a log, when nothing
\* else has acted on the bus
OwnPhase(log) ==
    LET last == log[Len(log)].op
        bytes == Len(log) - Count(log, "start") - Count(log, "stop")
    IN  IF last = "start" THEN {"Started"}
        ELSE IF last = "stop" THEN {"Stopped", "Idle"}
        ELSE IF bytes = 1 THEN {"AddressPhase"}
        ELSE {"DataPhase"}

\* context c is the only one that has called the driver
SingleCaller(c) == \A d \in IsrContexts \ {c} : ctx[d].op = "none"

\* context c is inside a composed operation whose transaction is open
InOpenTransaction(c) ==
    /\ ctx[c].pc # "idle"
    /\ ctx[c].op \in ComposedNames
    /\ ctx[c].log # <<>>
    /\ ctx[c].log[Len(ctx[c].log)].op # "stop"

\* C16: the driver has no mutual exclusion: while the main code is inside a
\* composed operation with its transaction open, every composed operation
\* can be entered by the interrupt handler; with a single caller the bus is
\* between two primitives always in the phase the caller's own primitives
\* left it in, with no operation outstanding: nothing else has acted on the
\* bus between the primitives of its operations.
C16_NoMutualExclusion ==
    /\ InOpenTransaction("main") /\ ctx["isr"].pc = "idle" =>
           /\ ENABLED i2c_writeByte("isr", {\h10}, SpecData)
           /\ ENABLED i2c_readByte("isr", {\h10})
           /\ ENABLED i2c_pagewrite("isr", {\h10}, {FullString(\h41, 1)})
           /\ ENABLED i2c_pageread("isr", {\h10}, {2}, 2)
    /\ \A c \in IsrContexts :
           (/\ SingleCaller(c)
            /\ ctx[c].op \in ComposedNames
            /\ ctx[c].log # <<>>
            /\ ctx[c].pc \notin PrimitiveLabels) =>
               /\ busPhase \in OwnPhase(ctx[c].log)
               /\ hwPending = "none"

\* C16 witness: the main code is in i2c_writeByte between its address byte
\* and its data byte; the handler, entered there, has issued the start, both
\* byte writes and the stop of its own i2c_writeByte
C16_Witness ==
    /\ ctx["main"].op = "i2c_writeByte"
    /\ ctx["main"].pc = "L76"
    /\ OpsOf(ctx["main"].log) = <<"start", "write">>
    /\ ctx["isr"].op = "i2c_writeByte"
    /\ ctx["isr"].pc = "L78"
    /\ OpsOf(ctx["isr"].log) = <<"start", "write", "write", "stop">>
    /\ busPhase = "Stopped"

====
